---- MODULE Spec2Model ----
(***************************************************************************)
(* Data preparation of the generative chatbot (data.py) and the encoder    *)
(* loop of train.py.                                                       *)
(*                                                                         *)
(* A Python str is a sequence of code points (natural numbers), a bytes    *)
(* object a sequence of byte values, a token a str, an utterance a         *)
(* sequence of tokens.  A call that can raise returns a record             *)
(* [ok, val]; ok = FALSE is the raised exception.                          *)
(*                                                                         *)
(* Four specifications share the variables:                                *)
(*   SpecClean   clean_content applied once and twice to a raw string      *)
(*   SpecPairs   load_utterances and the loop of get_utterance_pairs       *)
(*   SpecVocab   TokenMapper: construction, add_token, tok2num[t] lookups  *)
(*   SpecFilter  filter_unknown                                            *)
(***************************************************************************)
EXTENDS Integers, Sequences, FiniteSets, TLC

VARIABLES
    pc,                 \* position of the running call
    \* ---- clean_content ----
    raw,                \* the raw string handed to clean_content
    once,               \* result of clean_content(raw)
    twice,              \* result of clean_content(clean_content(raw))
    \* ---- get_utterance_pairs ----
    messages,           \* the 'messages' entries of the corpus files, in order
    MAX_NUM_UTTERANCES, \* data.py:14
    TARGET_USER,        \* data.py:21, None or a str
    VERIFY_UTTERANCES,  \* data.py:24
    REMOVE_SELF_REPLIES,\* data.py:27
    utterances,         \* local of get_utterance_pairs (data.py:104)
    i,                  \* loop index of data.py:110
    input_utterances,   \* data.py:107
    target_utterances,  \* data.py:107
    origin,             \* history: the value of i at which each pair was appended
    \* ---- TokenMapper ----
    corpus,             \* the constructor's argument, consumed by __init__
    MAX_VOCABULARY_SIZE,\* data.py:18
    tok2num,            \* self.tok2num, a defaultdict(get_unknown_token)
    num2tok,            \* self.num2tok, a dict
    token,              \* the token of the latest add_token call or lookup
    \* ---- filter_unknown ----
    f_inputs,           \* argument input_utterances
    f_targets,          \* argument target_utterances
    input_keys,         \* keys of input_mapper.tok2num
    target_keys,        \* keys of target_mapper.tok2num
    f_pos,              \* position of the zip loop (data.py:184)
    updated_input_utterances,
    updated_target_utterances,
    returned            \* the returned pair of lists

cleanVars  == <<raw, once, twice>>
pairVars   == <<messages, MAX_NUM_UTTERANCES, TARGET_USER, VERIFY_UTTERANCES,
                REMOVE_SELF_REPLIES, utterances, i, input_utterances,
                target_utterances, origin>>
vocabVars  == <<corpus, MAX_VOCABULARY_SIZE, tok2num, num2tok, token>>
filterVars == <<f_inputs, f_targets, input_keys, target_keys, f_pos,
                updated_input_utterances, updated_target_utterances, returned>>
vars == <<pc, cleanVars, pairVars, vocabVars, filterVars>>

None == <<0>>   \* Python's None, where a str is optional (no str holds NUL here)

\* ------------------------------------------------------------------------
\* Bounds of the checked instances
\* ------------------------------------------------------------------------
MaxRawLen   == 4    \* longest raw string given to clean_content
MaxMessages == 3    \* most messages in the corpus files
MaxCap      == 2    \* largest MAX_NUM_UTTERANCES
MaxCorpus   == 2    \* most utterances in a TokenMapper corpus
MaxUttLen   == 2    \* most tokens in an utterance of that corpus
MaxVocab    == 2    \* largest MAX_VOCABULARY_SIZE
MaxPairs    == 2    \* most pairs given to filter_unknown
MaxPairLen  == 2    \* most tokens in an utterance given to filter_unknown
MaxPairCap  == 1    \* largest MAX_VOCABULARY_SIZE of filter_unknown's mappers

\* ------------------------------------------------------------------------
\* Generic helpers
\* ------------------------------------------------------------------------
Min(a, b) == IF a < b THEN a ELSE b

SeqsUpTo(S, n) == UNION {[1..k -> S] : k \in 0..n}

SetMin(S) == CHOOSE x \in S : \A y \in S : x <= y

RECURSIVE Flatten(_)
Flatten(ss) == IF ss = <<>> THEN <<>> ELSE Head(ss) \o Flatten(Tail(ss))

Range(f) == {f[x] : x \in DOMAIN f}

\* ------------------------------------------------------------------------
\* Constants of data.py
\* ------------------------------------------------------------------------
MAX_NUM_TOKENS == 20

START_UTTERANCE == <<60, 117, 62>>              \* '<u>'
END_UTTERANCE   == <<60, 47, 117, 62>>          \* '</u>'
UNKNOWN_TOKEN   == <<60, 117, 110, 107, 62>>    \* '<unk>'

\* ------------------------------------------------------------------------
\* clean_content (data.py:36-48)
\* ------------------------------------------------------------------------
Ok(v) == [ok |-> TRUE, val |-> v]
Raised == [ok |-> FALSE, val |-> <<>>]

\* str.encode('latin1'): one byte per code point, UnicodeEncodeError above U+00FF.
Latin1Encode(s) ==
    IF \A k \in 1..Len(s) : s[k] <= 255 THEN Ok(s) ELSE Raised

IsCont(b) == 128 <= b /\ b <= 191

\* The first UTF-8 sequence of a non-empty byte string: [n, cp], n = 0 when the
\* strict decoder rejects it (stray continuation, overlong form, surrogate,
\* truncated sequence, lead byte above F4).
Utf8Head(b) ==
    LET b1 == b[1]
        c(k) == b[k] - 128
    IN  IF b1 < 128 THEN [n |-> 1, cp |-> b1]
        ELSE IF 194 <= b1 /\ b1 <= 223 /\ Len(b) >= 2 /\ IsCont(b[2])
            THEN [n |-> 2, cp |-> (b1 - 192) * 64 + c(2)]
        ELSE IF 224 <= b1 /\ b1 <= 239 /\ Len(b) >= 3 /\ IsCont(b[2]) /\ IsCont(b[3])
                /\ (b1 = 224 => b[2] >= 160) /\ (b1 = 237 => b[2] <= 159)
            THEN [n |-> 3, cp |-> (b1 - 224) * 4096 + c(2) * 64 + c(3)]
        ELSE IF 240 <= b1 /\ b1 <= 244 /\ Len(b) >= 4
                /\ IsCont(b[2]) /\ IsCont(b[3]) /\ IsCont(b[4])
                /\ (b1 = 240 => b[2] >= 144) /\ (b1 = 244 => b[2] <= 143)
            THEN [n |-> 4, cp |-> (b1 - 240) * 262144 + c(2) * 4096 + c(3) * 64 + c(4)]
        ELSE [n |-> 0, cp |-> 0]

\* bytes.decode('utf8'): UnicodeDecodeError on any invalid sequence.  The bytes
\* before the first one above 7F decode to themselves.
RECURSIVE Utf8Decode(_)
Utf8Decode(b) ==
    LET high == {k \in 1..Len(b) : b[k] >= 128}
    IN  IF high = {} THEN Ok(b)
        ELSE LET p    == SetMin(high)
                 rest == SubSeq(b, p, Len(b))
                 h    == Utf8Head(rest)
             IN  IF h.n = 0 THEN Raised
                 ELSE LET more == Utf8Decode(SubSeq(rest, h.n + 1, Len(rest)))
                      IN  IF more.ok
                          THEN Ok(SubSeq(b, 1, p - 1) \o <<h.cp>> \o more.val)
                          ELSE Raised

\* str.lower() on Basic Latin and the Latin-1 Supplement (A-Z, and U+00C0..U+00DE
\* without the multiplication sign U+00D7); other code points are left alone.
LowerChar(c) ==
    IF 65 <= c /\ c <= 90 THEN c + 32
    ELSE IF 192 <= c /\ c <= 222 /\ c # 215 THEN c + 32
    ELSE c

Lower(s) == [k \in 1..Len(s) |-> LowerChar(s[k])]

\* Membership in string.punctuation.
IsPunctuation(c) ==
    \/ 33 <= c /\ c <= 47
    \/ 58 <= c /\ c <= 64
    \/ 91 <= c /\ c <= 96
    \/ 123 <= c /\ c <= 126

NotPunctuation(c) == ~IsPunctuation(c)

\* data.py:40  content.encode('latin1').decode('utf8')
Redecode(content) ==
    LET e == Latin1Encode(content)
    IN  IF e.ok THEN Utf8Decode(e.val) ELSE Raised

\* The mutant of clean_content's punctuation step: only the first punctuation
\* character is removed (re.sub with count=1).
StripFirstPunctuation(content) ==
    LET found == {k \in 1..Len(content) : IsPunctuation(content[k])}
    IN  IF found = {} THEN content
        ELSE SubSeq(content, 1, SetMin(found) - 1)
                \o SubSeq(content, SetMin(found) + 1, Len(content))

\* data.py:44  re.sub('[<punctuation>]', '', content)
StripPunctuation(content) == SelectSeq(content, NotPunctuation)

clean_content(content) ==
    LET d == Redecode(content)
    IN  IF ~d.ok THEN Raised
        ELSE LET lowered  == Lower(d.val)
                 stripped == StripPunctuation(lowered)
             IN  Ok([k \in 1..Len(stripped) |->
                        IF stripped[k] = 10 THEN 32 ELSE stripped[k]])

\* ------------------------------------------------------------------------
\* tokenize, verify_utterance, wrap_utterance (data.py:78-98)
\* ------------------------------------------------------------------------
IsSpace(c) == c \in {9, 10, 13, 32}

IsTerminator(c) == c \in {33, 46, 63}    \* ! . ?

Take(s, n) == SubSeq(s, 1, Min(n, Len(s)))

\* nltk.sent_tokenize: a sentence ends at '.', '!' or '?' followed by white
\* space or the end of the text (Punkt's abbreviation heuristics are not
\* modelled).  Text without these characters, as clean_content returns it, is
\* one sentence; empty or blank text has none.
RECURSIVE SentFrom(_, _)
SentFrom(text, from) ==
    LET solid == {k \in from..Len(text) : ~IsSpace(text[k])}
    IN  IF solid = {} THEN <<>>
        ELSE LET first == SetMin(solid)
                 ends  == {k \in first..Len(text) :
                             /\ IsTerminator(text[k])
                             /\ (k = Len(text) \/ IsSpace(text[k + 1]))}
                 last  == IF ends = {} THEN Len(text) ELSE SetMin(ends)
             IN  <<SubSeq(text, first, last)>> \o SentFrom(text, last + 1)

sent_tokenize(text) == SentFrom(text, 1)

\* nltk.word_tokenize on text without punctuation: the maximal runs of
\* characters that are not white space, in order.
word_tokenize(sentence) ==
    LET n      == Len(sentence)
        solid(k) == ~IsSpace(sentence[k])
        starts == {k \in 1..n : solid(k) /\ (k = 1 \/ ~solid(k - 1))}
        ends   == {k \in 1..n : solid(k) /\ (k = n \/ ~solid(k + 1))}
        rank   == [k \in starts |-> Cardinality(starts \cap (1..k))]
    IN  [w \in 1..Cardinality(starts) |->
            LET k == CHOOSE x \in starts : rank[x] = w
            IN  SubSeq(sentence, k, SetMin(ends \cap (k..n)))]

\* data.py:87-90: each sentence's tokens are cut to MAX_NUM_TOKENS, then joined.
tokenize(utterance) ==
    LET sentences == sent_tokenize(utterance)
    IN  Flatten([k \in 1..Len(sentences) |->
                    Take(word_tokenize(sentences[k]), MAX_NUM_TOKENS)])

verify_utterance(tokens) == Len(tokens) <= MAX_NUM_TOKENS

\* The mutant of wrap_utterance: the end tag is forgotten.
WrapStartOnly(utterance) == <<START_UTTERANCE>> \o utterance

wrap_utterance(utterance) == <<START_UTTERANCE>> \o utterance \o <<END_UTTERANCE>>

\* ------------------------------------------------------------------------
\* load_utterances (data.py:51-75)
\* ------------------------------------------------------------------------
\* A message of a corpus file: [sender_name, content]; content = None is a
\* message without a 'content' key.
HasContent(message) == message.content # None

\* The messages that have content, in file order.
Loaded(msgs) == SelectSeq(msgs, HasContent)

load_utterances(msgs) ==
    LET kept    == Loaded(msgs)
        sender(k)  == clean_content(kept[k].sender_name)
        content(k) == clean_content(kept[k].content)
    IN  IF \A k \in 1..Len(kept) : sender(k).ok /\ content(k).ok
        THEN Ok([k \in 1..Len(kept) |->
                    [sender_name |-> sender(k).val, content |-> content(k).val]])
        ELSE Raised

\* Python's 0-based s[k].
At(s, k) == s[k + 1]

\* ------------------------------------------------------------------------
\* get_word_map, TokenMapper (data.py:144-178, 195-212)
\* ------------------------------------------------------------------------
get_unknown_token == 0

\* collections.Counter(...).most_common(n): the distinct tokens by falling
\* count, tokens of equal count in the order they were first met; at most n.
Occurrences(flat, t) == {k \in 1..Len(flat) : flat[k] = t}

Place(flat, t) ==
    LET Before(u) ==
            \/ Cardinality(Occurrences(flat, u)) > Cardinality(Occurrences(flat, t))
            \/ /\ Cardinality(Occurrences(flat, u)) = Cardinality(Occurrences(flat, t))
               /\ SetMin(Occurrences(flat, u)) < SetMin(Occurrences(flat, t))
    IN  1 + Cardinality({u \in Range(flat) : Before(u)})

\* The mutant of most_common: the cap is not applied (most_common()).
MostCommonUncapped(flat, n) ==
    [r \in 1..Cardinality(Range(flat)) |->
        CHOOSE t \in Range(flat) : Place(flat, t) = r]

\* data.py:157
most_common(flat, n) ==
    [r \in 1..Min(IF n < 0 THEN 0 ELSE n, Cardinality(Range(flat))) |->
        CHOOSE t \in Range(flat) : Place(flat, t) = r]

\* data.py:150-178.  The result is [tok2num, num2tok], each a function from
\* its keys.  The enumerate loop overwrites the entry of UNKNOWN_TOKEN when the
\* corpus holds that token.
get_word_map(utts, n) ==
    LET tokens == most_common(Flatten(utts), n)
        token_to_num ==
            [t \in {UNKNOWN_TOKEN} \cup Range(tokens) |->
                IF t \in Range(tokens)
                THEN CHOOSE r \in 1..Len(tokens) : tokens[r] = t
                ELSE 0]
        num_to_token ==
            [k \in {0} \cup Range(token_to_num) |->
                IF k = 0 THEN UNKNOWN_TOKEN
                ELSE CHOOSE t \in DOMAIN token_to_num : token_to_num[t] = k]
    IN  [tok2num |-> token_to_num, num2tok |-> num_to_token]

\* len(d) of a dict.
DictLen(d) == Cardinality(DOMAIN d)

\* data.py:208-212, on a mapper [tok2num, num2tok].
add_token(mapper, t) ==
    IF t \notin DOMAIN mapper.tok2num
    THEN [tok2num |-> mapper.tok2num @@ (t :> DictLen(mapper.num2tok)),
          num2tok |-> mapper.num2tok @@ (DictLen(mapper.num2tok) :> t)]
    ELSE mapper

\* data.py:196-205
TokenMapper(utts, n) ==
    add_token(add_token(add_token(get_word_map(utts, n), START_UTTERANCE),
                        END_UTTERANCE),
              UNKNOWN_TOKEN)

\* tok2num[t] on the defaultdict(get_unknown_token) of data.py:162: a missing
\* key is inserted with the factory's value before it is returned
\* (train.py:31, 35).
defaultdict_getitem(d, t) ==
    IF t \in DOMAIN d THEN d ELSE d @@ (t :> get_unknown_token)

\* ------------------------------------------------------------------------
\* Idle values of the variables a specification does not use
\* ------------------------------------------------------------------------
CleanIdle ==
    /\ raw = <<>> /\ once = Raised /\ twice = Raised

PairsIdle ==
    /\ messages = <<>> /\ MAX_NUM_UTTERANCES = 0 /\ TARGET_USER = None
    /\ VERIFY_UTTERANCES = FALSE /\ REMOVE_SELF_REPLIES = FALSE
    /\ utterances = <<>> /\ i = 0
    /\ input_utterances = <<>> /\ target_utterances = <<>> /\ origin = <<>>

VocabIdle ==
    /\ corpus = <<>> /\ MAX_VOCABULARY_SIZE = 0
    /\ tok2num = <<>> /\ num2tok = <<>> /\ token = None

FilterIdle ==
    /\ f_inputs = <<>> /\ f_targets = <<>> /\ input_keys = {} /\ target_keys = {}
    /\ f_pos = 0 /\ updated_input_utterances = <<>>
    /\ updated_target_utterances = <<>> /\ returned = <<>>

\* ------------------------------------------------------------------------
\* SpecClean: clean_content applied to a raw string, then to its own result
\* ------------------------------------------------------------------------
\* A, a, !, newline, and Latin-1 characters that are the bytes of UTF-8
\* sequences: C3 A5 (a with ring), C3 97 (multiplication sign), C2 90.
RawAlphabet == {65, 97, 33, 10, 195, 165, 151, 194, 144}

InitClean ==
    /\ pc = "raw"
    /\ raw \in SeqsUpTo(RawAlphabet, MaxRawLen)
    /\ once = Raised /\ twice = Raised
    /\ PairsIdle /\ VocabIdle /\ FilterIdle

CleanOnce ==
    /\ pc = "raw"
    /\ once' = clean_content(raw)
    /\ pc' = "once"
    /\ UNCHANGED <<raw, twice, pairVars, vocabVars, filterVars>>

CleanTwice ==
    /\ pc = "once"
    /\ once.ok
    /\ twice' = clean_content(once.val)
    /\ pc' = "twice"
    /\ UNCHANGED <<raw, once, pairVars, vocabVars, filterVars>>

NextClean == CleanOnce \/ CleanTwice

SpecClean == InitClean /\ [][NextClean]_vars

IsAscii(s) == \A k \in 1..Len(s) : s[k] < 128

\* C8 (as stated): whenever clean_content(s) succeeds, clean_content applied to
\* its result succeeds too and returns the same string.
C8_IdempotentAsStated ==
    pc = "twice" => (twice.ok /\ twice.val = once.val)

\* C8 (amended): whenever clean_content(s) succeeds with a result of ASCII
\* characters only, clean_content applied to that result succeeds and returns
\* the same string.
C8_IdempotentOnAscii ==
    (pc = "twice" /\ IsAscii(once.val)) => (twice.ok /\ twice.val = once.val)

\* A second cleaning of an ASCII result that the first cleaning had to change
\* (case, punctuation, newline or a re-decoded character).
C8_Witness ==
    /\ pc = "twice"
    /\ IsAscii(once.val) /\ once.val # <<>> /\ once.val # raw
    /\ \E k \in 1..Len(raw) : IsPunctuation(raw[k])

\* ------------------------------------------------------------------------
\* SpecPairs: get_utterance_pairs (data.py:101-136)
\* ------------------------------------------------------------------------
SenderA    == <<65>>                                        \* 'A'
SenderB    == <<66>>                                        \* 'B'
SenderADot == <<65, 46>>                                    \* 'A.'
Hello      == <<72, 101, 108, 108, 111, 33>>                \* 'Hello!'
HiThere    == <<72, 105, 32, 116, 104, 101, 114, 101, 46>>  \* 'Hi there.'
LongWords  == 25                           \* words in the long sample sentence
LongSentence == [k \in 1..(2 * LongWords) |-> IF k % 2 = 1 THEN 97 ELSE 32]  \* 'a a ... a '

Message(s, c) == [sender_name |-> s, content |-> c]

\* The messages the corpus files are made of: two senders, a third whose name
\* differs from the first by punctuation only, short contents, one sentence
\* above MAX_NUM_TOKENS words, and a message without content.
RawMessages ==
    { Message(SenderA, Hello), Message(SenderB, HiThere), Message(SenderA, HiThere),
      Message(SenderB, LongSentence), Message(SenderADot, Hello),
      Message(SenderA, None) }

InitPairs ==
    /\ pc = "load"
    /\ messages \in SeqsUpTo(RawMessages, MaxMessages)
    /\ MAX_NUM_UTTERANCES \in 0..MaxCap
    /\ TARGET_USER \in {None, SenderA}
    /\ VERIFY_UTTERANCES \in BOOLEAN
    /\ REMOVE_SELF_REPLIES \in BOOLEAN
    /\ utterances = <<>> /\ i = 0
    /\ input_utterances = <<>> /\ target_utterances = <<>> /\ origin = <<>>
    /\ CleanIdle /\ VocabIdle /\ FilterIdle

\* data.py:104 and the start of the loop of data.py:110.
Load ==
    /\ pc = "load"
    /\ LET r == load_utterances(messages)
       IN  IF r.ok
           THEN /\ utterances' = r.val
                /\ i' = 1
                /\ pc' = "loop"
           ELSE /\ pc' = "raised"
                /\ UNCHANGED <<utterances, i>>
    /\ UNCHANGED <<messages, MAX_NUM_UTTERANCES, TARGET_USER, VERIFY_UTTERANCES,
                   REMOVE_SELF_REPLIES, input_utterances, target_utterances, origin>>
    /\ UNCHANGED <<cleanVars, vocabVars, filterVars>>

input_tokens  == tokenize(At(utterances, i - 1).content)
target_tokens == tokenize(At(utterances, i).content)

\* The mutant of CapReached: the cap is tested one pair too late.
CapExceeded == Len(input_utterances) > MAX_NUM_UTTERANCES

\* data.py:112
CapReached == Len(input_utterances) = MAX_NUM_UTTERANCES

\* data.py:119
FailsVerification ==
    VERIFY_UTTERANCES
        /\ ~(verify_utterance(input_tokens) /\ verify_utterance(target_tokens))

\* data.py:123
NotTargetUser ==
    TARGET_USER # None /\ At(utterances, i).sender_name # Lower(TARGET_USER)

\* The mutant of IsSelfReply: the filter is never applied.
SelfReplyIgnored == FALSE

\* data.py:127
IsSelfReply ==
    REMOVE_SELF_REPLIES
        /\ At(utterances, i - 1).sender_name = At(utterances, i).sender_name

Skipped == FailsVerification \/ NotTargetUser \/ IsSelfReply

InLoop == pc = "loop" /\ i <= Len(utterances) - 1

pairsRest == <<messages, MAX_NUM_UTTERANCES, TARGET_USER, VERIFY_UTTERANCES,
               REMOVE_SELF_REPLIES, utterances>>

\* The loop runs out of messages (data.py:110), and the function returns.
LoopExhausted ==
    /\ pc = "loop" /\ i > Len(utterances) - 1
    /\ pc' = "done"
    /\ UNCHANGED <<i, input_utterances, target_utterances, origin, pairsRest>>
    /\ UNCHANGED <<cleanVars, vocabVars, filterVars>>

\* data.py:112-113
LoopBreak ==
    /\ InLoop /\ CapReached
    /\ pc' = "done"
    /\ UNCHANGED <<i, input_utterances, target_utterances, origin, pairsRest>>
    /\ UNCHANGED <<cleanVars, vocabVars, filterVars>>

\* data.py:116-128, one of the three continue statements is taken.
LoopSkip ==
    /\ InLoop /\ ~CapReached
    /\ Skipped
    /\ i' = i + 1
    /\ UNCHANGED <<pc, input_utterances, target_utterances, origin, pairsRest>>
    /\ UNCHANGED <<cleanVars, vocabVars, filterVars>>

\* data.py:116-134
LoopAppend ==
    /\ InLoop /\ ~CapReached
    /\ ~Skipped
    /\ input_utterances' = Append(input_utterances, wrap_utterance(input_tokens))
    /\ target_utterances' = Append(target_utterances, wrap_utterance(target_tokens))
    /\ origin' = Append(origin, i)
    /\ i' = i + 1
    /\ UNCHANGED <<pc, pairsRest>>
    /\ UNCHANGED <<cleanVars, vocabVars, filterVars>>

NextPairs == Load \/ LoopExhausted \/ LoopBreak \/ LoopSkip \/ LoopAppend

SpecPairs == InitPairs /\ [][NextPairs]_vars

\* ---- the statements checked under SpecPairs ----

\* The message (as in the corpus file) behind utterances[j], 0-based.
Original(j) == At(Loaded(messages), j)

\* str.casefold(); on the sender names and target users used here it is lower().
CaseFold(name) == Lower(name)

Hi            == <<104, 105>>                 \* 'hi'
There         == <<116, 104, 101, 114, 101>>  \* 'there'
HelloToken    == <<104, 101, 108, 108, 111>>  \* 'hello'

\* A message one of whose sentences word-tokenizes to more than MAX_NUM_TOKENS
\* tokens.
Oversized(message) ==
    LET sentences == sent_tokenize(clean_content(message.content).val)
    IN  \E k \in 1..Len(sentences) :
            Len(word_tokenize(sentences[k])) > MAX_NUM_TOKENS

\* C2 (as stated): with VERIFY_UTTERANCES set, a message holding a sentence of
\* more than MAX_NUM_TOKENS tokens (25 against 20) is on neither side of any
\* returned pair.
C2_OversizedExcluded ==
    VERIFY_UTTERANCES =>
        \A k \in 1..Len(origin) :
            ~Oversized(Original(origin[k] - 1)) /\ ~Oversized(Original(origin[k]))

\* C5 (as stated): with TARGET_USER set, the target of every returned pair was
\* sent by a sender whose original name, case-folded, is TARGET_USER case-folded.
C5_TargetSenderIsTargetUser ==
    TARGET_USER # None =>
        \A k \in 1..Len(origin) :
            CaseFold(Original(origin[k]).sender_name) = CaseFold(TARGET_USER)

\* C6: with REMOVE_SELF_REPLIES set, whatever the other options, no returned
\* pair has its input message and its target message sent by the same sender.
C6_NoSelfReplies ==
    REMOVE_SELF_REPLIES =>
        /\ Len(input_utterances) = Len(origin)
        /\ \A k \in 1..Len(origin) :
              Original(origin[k] - 1).sender_name # Original(origin[k]).sender_name

\* The call has returned pairs although a message was followed by another
\* message of its sender.
C6_Witness ==
    /\ pc = "done" /\ REMOVE_SELF_REPLIES
    /\ Len(origin) >= 1
    /\ \E j \in 1..(Len(utterances) - 1) :
          Original(j - 1).sender_name = Original(j).sender_name

\* The scenario of C7: A 'Hello!', B 'Hi there.', A 'Hi there.', self replies
\* removed, no target user, no verification, and a cap that allows two pairs.
C7_Scenario ==
    /\ messages = << Message(SenderA, Hello), Message(SenderB, HiThere),
                     Message(SenderA, HiThere) >>
    /\ REMOVE_SELF_REPLIES /\ TARGET_USER = None /\ ~VERIFY_UTTERANCES
    /\ MAX_NUM_UTTERANCES >= 2
    /\ pc = "done"

\* C7 (as stated): the scenario yields exactly two pairs, the input of each the
\* raw token list and the target wrapped in the start and end markers.
C7_InputsRaw ==
    C7_Scenario =>
        /\ input_utterances = << <<HelloToken>>, <<Hi, There>> >>
        /\ target_utterances =
              << <<START_UTTERANCE, Hi, There, END_UTTERANCE>>,
                 <<START_UTTERANCE, Hi, There, END_UTTERANCE>> >>

\* C7 (amended): the scenario yields exactly two pairs, the input and the target
\* of each both wrapped in the start and end markers.
C7_BothWrapped ==
    C7_Scenario =>
        /\ input_utterances =
              << <<START_UTTERANCE, HelloToken, END_UTTERANCE>>,
                 <<START_UTTERANCE, Hi, There, END_UTTERANCE>> >>
        /\ target_utterances =
              << <<START_UTTERANCE, Hi, There, END_UTTERANCE>>,
                 <<START_UTTERANCE, Hi, There, END_UTTERANCE>> >>

C7_Witness == C7_Scenario /\ Len(input_utterances) = 2

\* Whether the pair at loop index j (0-based target index) passes the filters
\* of data.py:119-128, stated on the loaded utterances.
Passes(j) ==
    LET prev == At(utterances, j - 1)
        this == At(utterances, j)
    IN  /\ VERIFY_UTTERANCES =>
              /\ Len(tokenize(prev.content)) <= MAX_NUM_TOKENS
              /\ Len(tokenize(this.content)) <= MAX_NUM_TOKENS
        /\ TARGET_USER # None => this.sender_name = Lower(TARGET_USER)
        /\ REMOVE_SELF_REPLIES => prev.sender_name # this.sender_name

\* C9: the two lists have the same length, at most MAX_NUM_UTTERANCES; the
\* pairs come from strictly increasing message indices, inputs[k] from
\* message[i_k - 1] and targets[k] from message[i_k]; and every index that
\* contributed passes every filter.
C9_PairsAligned ==
    /\ Len(input_utterances) = Len(target_utterances)
    /\ Len(input_utterances) = Len(origin)
    /\ Len(input_utterances) <= MAX_NUM_UTTERANCES
    /\ \A k \in 1..Len(origin) :
          /\ 1 <= origin[k] /\ origin[k] <= Len(utterances) - 1
          /\ k > 1 => origin[k - 1] < origin[k]
          /\ input_utterances[k] =
                <<START_UTTERANCE>> \o tokenize(At(utterances, origin[k] - 1).content)
                    \o <<END_UTTERANCE>>
          /\ target_utterances[k] =
                <<START_UTTERANCE>> \o tokenize(At(utterances, origin[k]).content)
                    \o <<END_UTTERANCE>>
          /\ Passes(origin[k])

\* The call has returned as many pairs as the cap allows, the first of them
\* after a pair that a filter dropped.
C9_Witness ==
    /\ pc = "done"
    /\ MAX_NUM_UTTERANCES >= 1
    /\ Len(input_utterances) = MAX_NUM_UTTERANCES
    /\ origin[1] > 1
    /\ ~Passes(1)

\* ------------------------------------------------------------------------
\* SpecVocab: a TokenMapper is built, then used through add_token and lookups
\* ------------------------------------------------------------------------
WordA == <<97>>    \* 'a'
WordB == <<98>>    \* 'b'
WordC == <<99>>    \* 'c'

\* The corpora are wrapped or unwrapped utterances of word tokens;
\* clean_content leaves no '<' in a word, so no word is a special token.
CorpusTokens == {WordA, WordB, START_UTTERANCE}

\* The tokens added or looked up: corpus tokens, a word of no corpus, and the
\* special tokens.
Tokens == CorpusTokens \cup {WordC, END_UTTERANCE, UNKNOWN_TOKEN}

InitVocab ==
    /\ pc = "new"
    /\ corpus \in SeqsUpTo(SeqsUpTo(CorpusTokens, MaxUttLen), MaxCorpus)
    /\ MAX_VOCABULARY_SIZE \in 0..MaxVocab
    /\ tok2num = <<>> /\ num2tok = <<>> /\ token = None
    /\ CleanIdle /\ PairsIdle /\ FilterIdle

\* mapper = TokenMapper(corpus)
Construct ==
    /\ pc = "new"
    /\ LET m == TokenMapper(corpus, MAX_VOCABULARY_SIZE)
       IN  /\ tok2num' = m.tok2num
           /\ num2tok' = m.num2tok
    /\ corpus' = <<>>
    /\ pc' = "built"
    /\ UNCHANGED <<MAX_VOCABULARY_SIZE, token>>
    /\ UNCHANGED <<cleanVars, pairVars, filterVars>>

Built == pc \in {"built", "added", "looked"}

\* mapper.add_token(t)
AddToken(t) ==
    /\ Built
    /\ LET m == add_token([tok2num |-> tok2num, num2tok |-> num2tok], t)
       IN  /\ tok2num' = m.tok2num
           /\ num2tok' = m.num2tok
    /\ token' = t
    /\ pc' = "added"
    /\ UNCHANGED <<corpus, MAX_VOCABULARY_SIZE>>
    /\ UNCHANGED <<cleanVars, pairVars, filterVars>>

\* mapper.tok2num[t], as in the encoding loops of train.py:28-35
LookupToken(t) ==
    /\ Built
    /\ tok2num' = defaultdict_getitem(tok2num, t)
    /\ token' = t
    /\ pc' = "looked"
    /\ UNCHANGED <<corpus, MAX_VOCABULARY_SIZE, num2tok>>
    /\ UNCHANGED <<cleanVars, pairVars, filterVars>>

NextVocab ==
    \/ Construct
    \/ \E t \in Tokens : AddToken(t)
    \/ \E t \in Tokens : LookupToken(t)

SpecVocab == InitVocab /\ [][NextVocab]_vars

NonUnknownKeys == DOMAIN tok2num \ {UNKNOWN_TOKEN}

\* C1 (as stated): once the vocabulary is built, through every add_token call
\* and every lookup, each key of tok2num other than '<unk>' has a strictly
\* positive index and index 0 is held by '<unk>' only.
C1_ZeroIsUnknownOnly ==
    Built =>
        /\ \A t \in NonUnknownKeys : tok2num[t] > 0
        /\ tok2num[UNKNOWN_TOKEN] = 0
        /\ num2tok[0] = UNKNOWN_TOKEN

C4_AddTokenRoundTrip ==
    LET m == [tok2num |-> tok2num, num2tok |-> num2tok]
    IN  /\ (pc = "added" /\ token # UNKNOWN_TOKEN) =>
              /\ token \in DOMAIN tok2num
              /\ tok2num[token] \in DOMAIN num2tok
              /\ num2tok[tok2num[token]] = token
              /\ add_token(m, token) = m
        /\ Built =>
              \A t \in Tokens \ DOMAIN tok2num :
                  /\ add_token(m, t).tok2num[t] = DictLen(num2tok)
                  /\ \A u \in DOMAIN tok2num : tok2num[u] # DictLen(num2tok)

\* ------------------------------------------------------------------------
\* SpecFilter: filter_unknown (data.py:181-192)
\* ------------------------------------------------------------------------
\* The tokens of an utterance that are keys of a mapper's tok2num
\* (data.py:185-186).
Known(utterance, keys) ==
    LET IsKey(t) == t \in keys
    IN  SelectSeq(utterance, IsKey)

PairLists ==
    UNION { [1..n -> SeqsUpTo({WordA, WordB}, MaxPairLen)] : n \in 0..MaxPairs }

\* The two lists are as long as each other, as get_utterance_pairs returns
\* them; each mapper is the TokenMapper of its list under a vocabulary cap.
InitFilter ==
    /\ pc = "filter"
    /\ f_inputs \in PairLists
    /\ f_targets \in {ts \in PairLists : Len(ts) = Len(f_inputs)}
    /\ \E n \in 0..MaxPairCap :
          /\ input_keys = DOMAIN TokenMapper(f_inputs, n).tok2num
          /\ target_keys = DOMAIN TokenMapper(f_targets, n).tok2num
    /\ f_pos = 1
    /\ updated_input_utterances = <<>> /\ updated_target_utterances = <<>>
    /\ returned = <<>>
    /\ CleanIdle /\ PairsIdle /\ VocabIdle

BothKnown ==
    /\ Known(f_inputs[f_pos], input_keys) # <<>>
    /\ Known(f_targets[f_pos], target_keys) # <<>>

filterArgs == <<f_inputs, f_targets, input_keys, target_keys>>

\* data.py:184-190, the pair is kept
FilterKeep ==
    /\ pc = "filter" /\ f_pos <= Min(Len(f_inputs), Len(f_targets))
    /\ BothKnown
    /\ updated_input_utterances' =
          Append(updated_input_utterances, Known(f_inputs[f_pos], input_keys))
    /\ updated_target_utterances' =
          Append(updated_target_utterances, Known(f_targets[f_pos], target_keys))
    /\ f_pos' = f_pos + 1
    /\ UNCHANGED <<pc, returned, filterArgs>>
    /\ UNCHANGED <<cleanVars, pairVars, vocabVars>>

\* data.py:184-188, one side has no known token
FilterDrop ==
    /\ pc = "filter" /\ f_pos <= Min(Len(f_inputs), Len(f_targets))
    /\ ~BothKnown
    /\ f_pos' = f_pos + 1
    /\ UNCHANGED <<pc, returned, updated_input_utterances,
                   updated_target_utterances, filterArgs>>
    /\ UNCHANGED <<cleanVars, pairVars, vocabVars>>

\* data.py:192: the arguments are returned, not the updated lists.
FilterReturn ==
    /\ pc = "filter" /\ f_pos > Min(Len(f_inputs), Len(f_targets))
    /\ returned' = <<f_inputs, f_targets>>
    /\ pc' = "returned"
    /\ UNCHANGED <<f_pos, updated_input_utterances, updated_target_utterances,
                   filterArgs>>
    /\ UNCHANGED <<cleanVars, pairVars, vocabVars>>

NextFilter == FilterKeep \/ FilterDrop \/ FilterReturn

SpecFilter == InitFilter /\ [][NextFilter]_vars

\* The elements of seq at the indices of S, in order.
Pick(seq, S) ==
    [k \in 1..Cardinality(S) |->
        seq[CHOOSE x \in S : Cardinality({y \in S : y < x}) = k - 1]]

\* C10: every returned utterance holds only keys of its mapper's tok2num, none
\* is empty, the two lists are as long as each other, and the k-th returned
\* input and the k-th returned target come from the same original pair.
C10_OnlyKnownTokens ==
    pc = "returned" =>
        /\ Len(returned[1]) = Len(returned[2])
        /\ \A k \in 1..Len(returned[1]) :
              /\ returned[1][k] # <<>>
              /\ \A j \in 1..Len(returned[1][k]) : returned[1][k][j] \in input_keys
        /\ \A k \in 1..Len(returned[2]) :
              /\ returned[2][k] # <<>>
              /\ \A j \in 1..Len(returned[2][k]) : returned[2][k][j] \in target_keys
        /\ \E S \in SUBSET (1..Len(f_inputs)) :
              /\ returned[1] = Pick([k \in 1..Len(f_inputs) |->
                                        Known(f_inputs[k], input_keys)], S)
              /\ returned[2] = Pick([k \in 1..Len(f_targets) |->
                                        Known(f_targets[k], target_keys)], S)

====
